---- MODULE Spec2Model ----
(***************************************************************************)
(* A model of the path value type of ostd (src/ostd/path.hh) and of the    *)
(* POSIX directory ranges built on it (src/src/posix/path.cc).             *)
(*                                                                         *)
(* A std::string is a sequence of one-character strings.  A read of        *)
(* s.data()[i] is At(s, i): the character for i < size, the terminating    *)
(* NUL for i = size.  The host platform is POSIX (src/src/posix), so the   *)
(* native format resolves to posix and the native separator is '/'.        *)
(***************************************************************************)
EXTENDS Integers, Sequences, FiniteSets, Bags, TLC

(***************************************************************************)
(* Bounds of the model.                                                    *)
(***************************************************************************)
\* longest string handed to a constructor
MaxLen == 3
\* longest string handed to a constructor when normalization alone is checked
MaxInput == 5
\* longest string handed to an operation as its operand
MaxArg == 2
\* longest raw string a path object is followed to
MaxPath == 4

\* the characters strings are built from: one letter (it also serves as a
\* drive letter), the dot, both separators and the drive colon
Alphabet == {"c", ".", "/", "\\", ":"}
\* the characters has_letter takes for a drive letter: (s[0] | 32) lies in
\* 'a' .. 'z', which holds of the ASCII letters of either case
Letters ==
    {"a", "b", "c", "d", "e", "f", "g", "h", "i", "j", "k", "l", "m",
     "n", "o", "p", "q", "r", "s", "t", "u", "v", "w", "x", "y", "z",
     "A", "B", "C", "D", "E", "F", "G", "H", "I", "J", "K", "L", "M",
     "N", "O", "P", "Q", "R", "S", "T", "U", "V", "W", "X", "Y", "Z"}
NUL == "NUL"
Formats == {"native", "posix", "windows"}

RECURSIVE StringsUpTo(_)
StringsUpTo(n) ==
    IF n = 0 THEN {<<>>}
    ELSE LET shorter == StringsUpTo(n - 1)
         IN  shorter \cup {Append(s, ch) : s \in {t \in shorter : Len(t) = n - 1}, ch \in Alphabet}

Strings == StringsUpTo(MaxLen)
LongStrings == StringsUpTo(MaxInput)
ArgStrings == StringsUpTo(MaxArg)
\* the suffixes handed to replace_suffix: a dot and letters
Suffixes == {s \in ArgStrings : \A i \in 1 .. Len(s) : s[i] \in {"c", "."}}

(***************************************************************************)
(* Character and range helpers.                                            *)
(***************************************************************************)
At(s, i) == IF i < Len(s) THEN s[i + 1] ELSE NUL

\* the half-open slice [a, b) of s, with 0-based bounds
Slice(s, a, b) == IF b <= a THEN <<>> ELSE SubSeq(s, a + 1, b)

\* std::string::front / back of a non-empty string
Back(s) == s[Len(s)]

\* ostd::find: 0-based index of the first occurrence of ch in s at or after
\* from, Len(s) when there is none (the empty range)
find(s, ch, from) ==
    LET hits == {i \in from .. (Len(s) - 1) : s[i + 1] = ch}
    IN  IF hits = {} THEN Len(s) ELSE CHOOSE i \in hits : \A j \in hits : i <= j

\* ostd::find_last: index of the last occurrence at or after from
find_last(s, ch, from) ==
    LET hits == {i \in from .. (Len(s) - 1) : s[i + 1] = ch}
    IN  IF hits = {} THEN Len(s) ELSE CHOOSE i \in hits : \A j \in hits : j <= i

path_fmt(f) == IF f = "native" THEN "posix" ELSE f

is_sep(c) == (c = "/") \/ (c = "\\")

is_win(fmt) == path_fmt(fmt) = "windows"

separator(fmt) == IF fmt = "windows" THEN "\\" ELSE "/"

has_letter(s) ==
    IF Len(s) < 2 THEN FALSE
    ELSE (s[2] = ":") /\ (s[1] \in Letters)

has_dslash(s) ==
    IF Len(s) < 2 THEN FALSE
    ELSE Slice(s, 0, 2) = <<"\\", "\\">>

(***************************************************************************)
(* cleanup_str                                                             *)
(***************************************************************************)
\* the inner for (;;) of cleanup_str: the count of characters after s[start]
\* that the separator at start swallows.  Once the scan looks past the
\* terminating NUL the replace below is clipped to the end of the string
\* whatever is read there, so the count reached is returned.
RECURSIVE scan_cnt(_, _, _)
scan_cnt(s, start, cnt) ==
    IF start + cnt + 1 > Len(s) THEN cnt
    ELSE IF is_sep(At(s, start + cnt + 1)) THEN scan_cnt(s, start, cnt + 1)
    ELSE IF /\ At(s, start + cnt + 1) = "."
            /\ \/ is_sep(At(s, start + cnt + 2))
               \/ At(s, start + cnt + 2) = NUL
         THEN scan_cnt(s, start, cnt + 2)
    ELSE cnt

\* s.replace(pos, n, 1, ch)
replace1(s, pos, n, ch) ==
    LET e == IF pos + n > Len(s) THEN Len(s) ELSE pos + n
    IN  Slice(s, 0, pos) \o <<ch>> \o Slice(s, e, Len(s))

\* the outer for loop of cleanup_str
RECURSIVE cleanup_loop(_, _, _)
cleanup_loop(s, start, sep) ==
    IF start >= Len(s) THEN s
    ELSE IF is_sep(At(s, start))
         THEN cleanup_loop(replace1(s, start, scan_cnt(s, start, 0) + 1, sep), start + 1, sep)
         ELSE cleanup_loop(s, start + 1, sep)

cleanup_str(s, sep, allow_twoslash) ==
    LET start == IF allow_twoslash /\ is_sep(At(s, 0)) /\ is_sep(At(s, 1)) THEN 1 ELSE 0
        erased == IF /\ At(s, start) = "."
                     /\ (is_sep(At(s, start + 1)) \/ At(s, start + 1) = NUL)
                  THEN LET n == IF At(s, start + 1) = NUL THEN 1 ELSE 2
                       IN  Slice(s, 0, start) \o Slice(s, start + n, Len(s))
                  ELSE s
    IN  cleanup_loop(erased, start, sep)

(***************************************************************************)
(* Outcomes.  An operation on the raw string ends normally, throws         *)
(* std::out_of_range (std::string::erase with pos > size, the string is    *)
(* left as it was) or runs into undefined behaviour that corrupts the      *)
(* string (pop_back on an empty string).  back() on an empty string reads  *)
(* the byte in front of the buffer: junk tells whether that byte equals    *)
(* the separator.                                                          *)
(***************************************************************************)
Ok(s) == [str |-> s, exc |-> "none"]
Fail(s, e) == [str |-> s, exc |-> e]

strip_trailing(s, sep, junk) ==
    LET plen == Len(s)
    IN  IF sep = "\\" /\ (plen <= 2) /\ At(s, 0) = "\\" /\ At(s, 1) = "\\" THEN Ok(s)
        ELSE IF sep = "\\" /\ (plen <= 3) /\ has_letter(s) THEN Ok(s)
        ELSE IF sep # "\\" /\ plen <= 1 THEN Ok(s)
        ELSE IF plen = 0 THEN (IF junk THEN Fail(s, "ub") ELSE Ok(s))
        ELSE IF Back(s) = sep THEN Ok(Slice(s, 0, plen - 1))
        ELSE Ok(s)

append_str(p_path, fmt, s0, norm, junk) ==
    LET sep == separator(fmt)
        win == is_win(fmt)
        s == IF norm THEN s0 ELSE cleanup_str(s0, sep, win)
        joined ==
            IF (At(s, 0) = sep) \/ (win /\ has_letter(s)) THEN s
            ELSE IF s # <<>>
                 THEN IF p_path = <<".">> THEN s
                      ELSE IF p_path = <<>>
                           THEN (IF junk THEN s ELSE <<sep>> \o s)
                           ELSE IF Back(p_path) # sep THEN p_path \o <<sep>> \o s
                                ELSE p_path \o s
                 ELSE p_path
    IN  strip_trailing(joined, sep, junk)

append_concat_str(p_path, fmt, s0, junk) ==
    LET sep == separator(fmt)
        s == cleanup_str(s0, sep, FALSE)
        lastsep == IF p_path = <<>> THEN junk ELSE Back(p_path) = sep
    IN  IF p_path = <<".">> THEN strip_trailing(s, sep, junk)
        ELSE IF lastsep /\ (At(s, 0) = sep)
             THEN IF p_path = <<>> THEN Fail(p_path, "ub")
                  ELSE strip_trailing(Slice(p_path, 0, Len(p_path) - 1) \o s, sep, junk)
             ELSE strip_trailing(p_path \o s, sep, junk)

convert_path(p_path, fmt) ==
    LET tosep == separator(fmt)
        froms == IF tosep = "\\" THEN "/" ELSE "\\"
        s == IF tosep # "\\" /\ Slice(p_path, 0, IF Len(p_path) < 2 THEN Len(p_path) ELSE 2) = <<"\\", "\\">>
             THEN replace1(p_path, 0, 2, "/")
             ELSE p_path
    IN  [i \in 1 .. Len(s) |-> IF s[i] = froms THEN tosep ELSE s[i]]

(***************************************************************************)
(* Path values: the raw string p_path and the format tag p_fmt.            *)
(***************************************************************************)
Path(s, fmt) == [str |-> s, fmt |-> fmt]

\* path(R range, format fmt) for a string
path_from_string(s, fmt) == Path(append_str(<<".">>, fmt, s, FALSE, FALSE).str, fmt)

\* path(path const &p, format fmt)
path_convert(p, fmt) ==
    IF path_fmt(fmt) # path_fmt(p.fmt) THEN Path(convert_path(p.str, fmt), fmt)
    ELSE Path(p.str, fmt)

get_rootp(p) ==
    IF is_win(p.fmt)
    THEN IF At(p.str, 0) = "\\" THEN 0
         ELSE IF has_letter(p.str) /\ At(p.str, 2) = "\\" THEN 2
         ELSE -1
    ELSE IF At(p.str, 0) = "/" THEN 0 ELSE -1

\* root(), as a string
root(p) == IF get_rootp(p) >= 0 THEN <<p.str[get_rootp(p) + 1]>> ELSE <<>>

has_root(p) == get_rootp(p) >= 0

\* strchr(s.data() + from, ch): index of the first ch at or after from, -1 for NULL
strchr(s, from, ch) == IF find(s, ch, from) = Len(s) THEN -1 ELSE find(s, ch, from)

\* drive(), as the length of the prefix of p_path it returns
drive_len(p) ==
    IF is_win(p.fmt)
    THEN IF has_dslash(p.str)
         THEN LET endp == strchr(p.str, 2, "\\")
              IN  IF endp < 0 THEN Len(p.str)
                  ELSE LET pendp == strchr(p.str, endp, "\\")
                       IN  IF pendp < 0 THEN Len(p.str) ELSE pendp
         ELSE IF has_letter(p.str) THEN 2
         ELSE 0
    ELSE 0

drive(p) == Slice(p.str, 0, drive_len(p))

has_drive(p) == is_win(p.fmt) /\ (has_letter(p.str) \/ has_dslash(p.str))

anchor(p) ==
    LET dr == drive(p)
    IN  IF dr = <<>> THEN root(p)
        ELSE IF At(p.str, Len(dr)) = separator(p.fmt) THEN Slice(p.str, 0, Len(dr) + 1)
        ELSE dr

\* relative_to_str: the range returned is a suffix of p_path (or nullptr);
\* this is the index it starts at, Len(p_path) for the empty or null range
relative_to_off(p, other) ==
    IF other = <<".">> THEN 0
    ELSE LET oplen == Len(other)
         IN  IF oplen <= Len(p.str) /\ Slice(p.str, 0, oplen) = other
             THEN IF (Len(p.str) > oplen) /\ (p.str[oplen + 1] = separator(p.fmt))
                  THEN oplen + 1 ELSE oplen
             ELSE Len(p.str)

relative_to_str(p, other) == Slice(p.str, relative_to_off(p, other), Len(p.str))

\* name(), as the index in p_path the name starts at
name_off(p) ==
    LET rel == relative_to_off(p, anchor(p))
        sep == find_last(p.str, separator(p.fmt), rel)
    IN  IF sep = Len(p.str) THEN rel ELSE sep + 1

name(p) == Slice(p.str, name_off(p), Len(p.str))

has_name(p) == name(p) # <<>>

\* parent(): the prefix before the last separator of the remainder, handed
\* to path(R range, format fmt = format::native)
parent(p) ==
    LET rel == relative_to_off(p, anchor(p))
        sep == find_last(p.str, separator(p.fmt), rel)
    IN  IF sep = Len(p.str) THEN p
        ELSE path_from_string(Slice(p.str, 0, sep), "native")

\* suffix() looking for the last "." in the name alone
suffix_of_name(p) ==
    LET nm == name(p)
    IN  Slice(nm, find_last(nm, ".", 0), Len(nm))

suffix(p) ==
    LET rel == relative_to_off(p, anchor(p))
    IN  Slice(p.str, find_last(p.str, ".", rel), Len(p.str))

suffixes(p) == Slice(p.str, find(p.str, ".", name_off(p)), Len(p.str))

has_suffix(p) == suffixes(p) # <<>>

\* stem() cutting the name at its last "." instead of its first
stem_at_last_dot(p) ==
    LET nm == name(p)
    IN  Slice(nm, 0, find_last(nm, ".", 0))

stem(p) ==
    LET nm == name(p)
    IN  Slice(nm, 0, find(nm, ".", 0))

is_absolute(p) ==
    IF is_win(p.fmt)
    THEN IF has_dslash(p.str) THEN TRUE
         ELSE has_letter(p.str) /\ (At(p.str, 2) = "\\")
    ELSE At(p.str, 0) = "/"


(***************************************************************************)
(* Mutating operations, as outcomes on the raw string of the receiver.     *)
(***************************************************************************)
\* append / join / operator/
append(p, q, junk) ==
    append_str(p.str, p.fmt, q.str, path_fmt(q.fmt) = path_fmt(p.fmt), junk)

\* append_concat / concat / operator+
append_concat(p, q, junk) == append_concat_str(p.str, p.fmt, q.str, junk)

\* remove_name: erase(size - nm.size - 1, nm.size + 1) in size_t arithmetic;
\* a position past the end throws std::out_of_range
remove_name(p) ==
    LET nm == name(p)
        pos == Len(p.str) - Len(nm) - 1
    IN  IF nm = <<>> THEN Ok(p.str)
        ELSE IF pos < 0 THEN Fail(p.str, "out_of_range")
        ELSE Ok(Slice(p.str, 0, pos))

replace_name(p, nm, junk) ==
    LET r == remove_name(p)
    IN  IF r.exc # "none" THEN r
        ELSE append_str(r.str, p.fmt, nm, FALSE, junk)

replace_suffix(p, sfx) ==
    LET osfx == suffix(p)
    IN  Ok(Slice(p.str, 0, Len(p.str) - Len(osfx)) \o sfx)

replace_suffixes(p, sfx) ==
    LET sfxs == suffixes(p)
    IN  Ok(Slice(p.str, 0, Len(p.str) - Len(sfxs)) \o sfx)

\* path(R range, format fmt) for a list of segments
RECURSIVE path_from_list(_, _, _, _)
path_from_list(acc, segs, fmt, junk) ==
    IF segs = <<>> \/ acc.exc # "none" THEN acc
    ELSE path_from_list(append_str(acc.str, fmt, Head(segs), FALSE, junk), Tail(segs), fmt, junk)

(***************************************************************************)
(* The path object under test.                                             *)
(*   p    the path object                                                  *)
(*   q    the operand of the last operation (a path)                       *)
(*   op   the last operation                                               *)
(*   exc  how the last operation ended                                     *)
(***************************************************************************)
VARIABLES p, q, op, exc

pathvars == <<p, q, op, exc>>

(***************************************************************************)
(* The directory ranges of src/src/posix/path.cc and the DirectoryStream   *)
(* of src/ostd/filesystem.hh, over a directory tree.                       *)
(*   fs         the tree below the directory the range is opened at        *)
(*   base       the path the range is opened at                            *)
(*   impl       which range is in use                                      *)
(*   tab        the DIR streams of the OS, by handle                       *)
(*   p_handle   dir_range_impl::p_handle / DirectoryStream::p_d, 0 if null *)
(*   p_handles  rdir_range_impl::p_handles, the top last                   *)
(*   p_dir      p_dir / DirectoryStream::p_path                            *)
(*   p_current  the current entry                                          *)
(*   p_de       DirectoryStream::p_de, the name read last or NUL           *)
(*   yielded    the strings of the entries the caller has seen, in order   *)
(*   status     how the last call ended                                    *)
(*   phase      "closed", "open", "done" (closed again) or "aborted"       *)
(*   peak       the most DIR streams open at once so far                   *)
(*   peer       a second DirectoryStream, the one swap and move-assignment *)
(*              take as their argument                                     *)
(*   reuses     the calls a DirectoryStream has had that are no part of a  *)
(*              single traversal (open, pop_front ..., close)              *)
(***************************************************************************)
VARIABLES fs, base, impl, tab, p_handle, p_handles, p_dir, p_current, p_de,
          yielded, status, phase, peak, peer, reuses

dirvars == <<fs, base, impl, tab, p_handle, p_handles, p_dir, p_current, p_de,
             yielded, status, phase, peak, peer, reuses>>

\* the glob matcher: the filename and the pattern segment compared and the
\* verdict; the expansion driver: its pattern segments and its sink
VARIABLES fname, wname, matched, pattern, sink

globvars == <<fname, wname, matched, pattern, sink>>

\* the file status probe: the st_mode the OS reports and the file_status made
VARIABLES sb, file_status

statvars == <<sb, file_status>>

\* the segment range of a path: the segment at its front and what is left
\* of the string, and the segments taken from it so far
VARIABLES range, taken

rangevars == <<range, taken>>

vars == <<pathvars, dirvars, globvars, statvars, rangevars>>

\* no segment range is made
NoRange == [p_current |-> <<>>, p_rest |-> <<>>]

RangeIdle ==
    /\ range = NoRange
    /\ taken = <<>>

\* no glob is matched or expanded
GlobIdle ==
    /\ fname = <<>>
    /\ wname = <<>>
    /\ matched = "none"
    /\ pattern = <<>>
    /\ sink = EmptyBag

\* no status is asked for
NoStat == [ret |-> 0, st_mode |-> 0]
NoStatus == [type |-> "none", perms |-> {}]

StatIdle ==
    /\ sb = NoStat
    /\ file_status = NoStatus

DotPath == Path(<<".">>, "native")

\* a DirectoryStream as its default constructor leaves it
NoPeer == [p_d |-> 0, p_de |-> NUL, p_path |-> <<>>]

\* no directory range is in use
DirIdle ==
    /\ fs = {}
    /\ base = DotPath
    /\ impl = "none"
    /\ tab = <<>>
    /\ p_handle = 0
    /\ p_handles = <<>>
    /\ p_dir = DotPath
    /\ p_current = DotPath
    /\ p_de = NUL
    /\ yielded = <<>>
    /\ status = "none"
    /\ phase = "closed"
    /\ peak = 0
    /\ peer = NoPeer
    /\ reuses = 0

\* every path a constructor makes from a string of up to MaxLen characters,
\* and from one of up to MaxArg characters
AllCtor == {path_from_string(s, fmt) : s \in Strings, fmt \in Formats}
ArgCtor == {path_from_string(s, fmt) : s \in ArgStrings, fmt \in Formats}
AbsCtor == {o \in AllCtor : is_absolute(o)}

\* the paths handed to join and concat as operands: every path made from a
\* string of up to MaxArg characters and every absolute path made from a
\* string of up to MaxLen characters
Operands == ArgCtor \cup AbsCtor

\* path::path(R range, format fmt): p_path(".") and p_fmt(fmt) are set, the
\* string argument q is still to be appended
Init ==
    \E s \in Strings, fmt \in Formats :
        /\ DirIdle /\ GlobIdle /\ StatIdle /\ RangeIdle
        /\ p = Path(<<".">>, fmt)
        /\ q = Path(s, fmt)
        /\ op = "path"
        /\ exc = "none"

\* the body of path::path(R range, format fmt) for a string
Construct ==
    /\ op = "path"
    /\ p' = path_from_string(q.str, p.fmt)
    /\ op' = "construct"
    /\ UNCHANGED <<q, exc>>
    /\ UNCHANGED <<dirvars, globvars, statvars, rangevars>>

\* the bytes back() can find in front of an empty string
Junk == IF p.str = <<>> THEN BOOLEAN ELSE {FALSE}

\* an operation that ended in outcome o on the receiver
Finish(o, name_, operand) ==
    /\ Len(o.str) <= MaxPath
    /\ p' = Path(o.str, p.fmt)
    /\ q' = operand
    /\ op' = name_
    /\ exc' = o.exc
    /\ UNCHANGED <<dirvars, globvars, statvars, rangevars>>

Alive == op # "path" /\ exc # "ub"

\* p.append(q), p /= q, p = p.join(q)
Join ==
    \E operand \in Operands, junk \in Junk :
        Alive /\ Finish(append(p, operand, junk), "join", operand)

\* p.append_concat(q), p += q, p = p.concat(q)
Concat ==
    \E operand \in Operands, junk \in Junk :
        Alive /\ Finish(append_concat(p, operand, junk), "concat", operand)

RemoveName == Alive /\ Finish(remove_name(p), "remove_name", DotPath)

ReplaceName ==
    \E s \in ArgStrings, junk \in Junk :
        Alive /\ Finish(replace_name(p, s, junk), "replace_name", Path(s, "native"))

ReplaceSuffix ==
    \E s \in Suffixes :
        Alive /\ Finish(replace_suffix(p, s), "replace_suffix", Path(s, "native"))

ReplaceSuffixes ==
    \E s \in Suffixes :
        Alive /\ Finish(replace_suffixes(p, s), "replace_suffixes", Path(s, "native"))

\* p.clear(): the string becomes "." and the format stays
Clear ==
    /\ Alive
    /\ p' = Path(<<".">>, p.fmt)
    /\ q' = p
    /\ op' = "clear"
    /\ exc' = "none"
    /\ UNCHANGED <<dirvars, globvars, statvars, rangevars>>

\* p.swap(other) for another path object: string and format change sides;
\* q is the operand as it was handed over
Swap ==
    \E other \in Operands :
        /\ Alive
        /\ p' = other
        /\ q' = other
        /\ op' = "swap"
        /\ exc' = "none"
        /\ UNCHANGED <<dirvars, globvars, statvars, rangevars>>

\* p = path{p, fmt}
Convert ==
    \E fmt \in Formats :
        /\ Alive
        /\ p' = path_convert(p, fmt)
        /\ q' = p
        /\ op' = "convert"
        /\ exc' = "none"
        /\ UNCHANGED <<dirvars, globvars, statvars, rangevars>>

\* p = p.parent()
Parent ==
    /\ Alive
    /\ p' = parent(p)
    /\ q' = p
    /\ op' = "parent"
    /\ exc' = "none"
    /\ UNCHANGED <<dirvars, globvars, statvars, rangevars>>

Next ==
    \/ Construct
    \/ Join
    \/ Concat
    \/ RemoveName
    \/ ReplaceName
    \/ ReplaceSuffix
    \/ ReplaceSuffixes
    \/ Clear
    \/ Swap
    \/ Convert
    \/ Parent

Spec == Init /\ [][Next]_vars

(***************************************************************************)
(* Normalization alone: a path is constructed from a string and a second   *)
(* path is constructed from the string of the first.                       *)
(***************************************************************************)
NormInit ==
    \E s \in LongStrings, fmt \in Formats :
        /\ DirIdle /\ GlobIdle /\ StatIdle /\ RangeIdle
        /\ p = Path(<<".">>, fmt)
        /\ q = Path(s, fmt)
        /\ op = "path"
        /\ exc = "none"

\* p = path{p.string(), p.path_format()}
Reconstruct ==
    /\ op = "construct"
    /\ p' = path_from_string(p.str, p.fmt)
    /\ q' = p
    /\ op' = "reconstruct"
    /\ UNCHANGED exc
    /\ UNCHANGED <<dirvars, globvars, statvars, rangevars>>

NormNext ==
    \/ Construct
    \/ Reconstruct

SpecNorm == NormInit /\ [][NormNext]_vars

(***************************************************************************)
(* The directory tree and the DIR streams of the OS.                       *)
(* A node is the sequence of names that leads to it from the root of the   *)
(* tree; the root is the current directory of the process and "/".         *)
(***************************************************************************)
\* the most entries in a tree and the deepest an entry lies
MaxNodes == 4
MaxDepth == 3

Names == {<<"a">>, <<"b">>}
FlatNames == {<<"a">>, <<"b">>, <<".", "c">>}
Sentinels == {<<".">>, <<".", ".">>}

Exists(t, n) == (n = <<>>) \/ (\E e \in t : e.path = n)
IsDir(t, n) == (n = <<>>) \/ ([path |-> n, dir |-> TRUE] \in t)
DirNodes(t) == {<<>>} \cup {e.path : e \in {x \in t : x.dir}}

\* the names of the entries of directory n
Children(t, n) ==
    {e.path[Len(e.path)] :
        e \in {x \in t : Len(x.path) = Len(n) + 1 /\ SubSeq(x.path, 1, Len(n)) = n}}

\* the nodes strictly below n
Below(t, n) ==
    {e.path : e \in {x \in t : Len(x.path) > Len(n) /\ SubSeq(x.path, 1, Len(n)) = n}}

\* the trees of up to n entries, each at most MaxDepth names deep
RECURSIVE TreesUpTo(_)
TreesUpTo(n) ==
    IF n = 0 THEN {{}}
    ELSE LET T == TreesUpTo(n - 1)
             more(t) ==
                 {e \in [path : {Append(par, x) : par \in DirNodes(t), x \in Names},
                         dir : BOOLEAN] :
                     Len(e.path) <= MaxDepth /\ ~Exists(t, e.path)}
         IN  T \cup UNION {{t \cup {e} : e \in more(t)} : t \in T}

Trees == TreesUpTo(MaxNodes)

\* the directories with entries below them one level deep only
FlatTrees ==
    UNION {{ {[path |-> <<x>>, dir |-> x \in ds] : x \in E} : ds \in SUBSET E} :
              E \in SUBSET FlatNames}

\* the components of a path string, the empty ones left out
RECURSIVE Split(_, _)
Split(s, cur) ==
    IF s = <<>> THEN (IF cur = <<>> THEN <<>> ELSE <<cur>>)
    ELSE IF Head(s) = "/"
         THEN (IF cur = <<>> THEN <<>> ELSE <<cur>>) \o Split(Tail(s), <<>>)
         ELSE Split(Tail(s), Append(cur, Head(s)))

\* path resolution of the OS from node n over components cs
RECURSIVE Walk(_, _, _)
Walk(t, n, cs) ==
    IF cs = <<>> THEN [ok |-> TRUE, node |-> n]
    ELSE IF ~IsDir(t, n) THEN [ok |-> FALSE, node |-> n]
    ELSE IF Head(cs) = <<".">> THEN Walk(t, n, Tail(cs))
    ELSE IF Head(cs) = <<".", ".">>
         THEN Walk(t, IF n = <<>> THEN n ELSE SubSeq(n, 1, Len(n) - 1), Tail(cs))
    ELSE IF Exists(t, Append(n, Head(cs))) THEN Walk(t, Append(n, Head(cs)), Tail(cs))
    ELSE [ok |-> FALSE, node |-> n]

\* the node a path string names; the empty string names nothing
OsResolve(t, s) ==
    IF s = <<>> THEN [ok |-> FALSE, node |-> <<>>]
    ELSE Walk(t, <<>>, Split(s, <<>>))

\* stat(2) and S_ISDIR
is_directory(t, s) == OsResolve(t, s).ok /\ IsDir(t, OsResolve(t, s).node)

\* opendir(3): the new stream is the last of the table; 0 for NULL
opendir(t, tb, s) ==
    IF is_directory(t, s)
    THEN [tab |-> Append(tb, [node |-> OsResolve(t, s).node,
                              left |-> Children(t, OsResolve(t, s).node) \cup Sentinels,
                              open |-> TRUE,
                              closes |-> 0]),
          d |-> Len(tb) + 1]
    ELSE [tab |-> tb, d |-> 0]

\* closedir(3)
closedir(tb, d) ==
    [tb EXCEPT ![d].open = FALSE, ![d].closes = tb[d].closes + 1]

OpenCount(tb) == Cardinality({d \in 1 .. Len(tb) : tb[d].open})

\* readdir(3) called until it returns a name that is not in skip, or NULL:
\* the names still unread come in any order.  Each outcome is the name
\* returned (NUL for NULL) and the table afterwards.
readdir_until(tb, d, skip) ==
    LET L == tb[d].left
        real == L \ skip
        sent == L \cap skip
    IN  IF real = {}
        THEN {[name |-> NUL, tab |-> [tb EXCEPT ![d].left = {}]]}
        ELSE {[name |-> x, tab |-> [tb EXCEPT ![d].left = L \ ({x} \cup S)]] :
                 x \in real, S \in SUBSET sent}

\* readdir_r(3) failing in the loop of detail::dir_read_next: the call can
\* fail at every turn of the loop, after any of the names in skip were read;
\* each outcome is the table by then
readdir_r_failed(tb, d, skip) ==
    {[tb EXCEPT ![d].left = tb[d].left \ S] : S \in SUBSET (tb[d].left \cap skip)}

\* directory_entry::clear() and path::empty(): a cleared entry holds the path
\* "." that path::clear() leaves, in the format the entry had
ClearedEntry(pp) == Path(<<".">>, pp.fmt)
empty(pp) == pp.str = <<".">>

JunkOf(pp) == IF pp.str = <<>> THEN BOOLEAN ELSE {FALSE}

\* cur.assign(std::move(p)) for the outcome o of p.append(nm)
assigned(tb, o, fmt) == [tab |-> tb, cur |-> Path(o.str, fmt), exc |-> o.exc]

\* cur.clear()
cleared(tb, cur) == [tab |-> tb, cur |-> ClearedEntry(cur), exc |-> "none"]

\* abort() on a readdir_r that failed: cur is as it was
aborted(tb, cur) == [tab |-> tb, cur |-> cur, exc |-> "abort"]

\* path p{base}; p.append(nm); for each name readdir_r can return
appended(rs, cur, bs) ==
    UNION {IF r.name = NUL THEN {cleared(r.tab, cur)}
           ELSE {assigned(r.tab, append(bs, path_from_string(r.name, "native"), j), bs.fmt) :
                     j \in JunkOf(bs)} :
              r \in rs}

\* dir_read_next that skips "." alone
dir_read_next_dot_only(tb, dh, cur, bs) ==
    appended(readdir_until(tb, dh, {<<".">>}), cur, bs)
    \cup {aborted(x, cur) : x \in readdir_r_failed(tb, dh, {<<".">>})}

\* detail::dir_read_next(dh, cur, base): the outcomes are the entry left in
\* cur and the table afterwards
dir_read_next(tb, dh, cur, bs) ==
    appended(readdir_until(tb, dh, Sentinels), cur, bs)
    \cup {aborted(x, cur) : x \in readdir_r_failed(tb, dh, Sentinels)}

Max(a, b) == IF a >= b THEN a ELSE b
Top(hs) == hs[Len(hs)]
Pop(hs) == SubSeq(hs, 1, Len(hs) - 1)
ExcStatus(e) == IF e = "none" THEN "ok" ELSE e

\* what the caller reads off a range that has an entry
Yield(ys, cur) == IF empty(cur) THEN ys ELSE Append(ys, cur.str)

\* the paths the ranges are opened at
Bases == {path_from_string(s, "native") : s \in {<<".">>, <<"/">>, <<"a">>}}

\* the path object is not in use while a directory is read
PathIdle ==
    /\ p = DotPath
    /\ q = DotPath
    /\ op = "dir"
    /\ exc = "none"

\* a range or stream object, constructed and not yet opened
DirInit(trees, impls) ==
    /\ PathIdle /\ GlobIdle /\ StatIdle /\ RangeIdle
    /\ fs \in trees
    /\ base \in Bases
    /\ impl \in impls
    /\ tab = <<>>
    /\ p_handle = 0
    /\ p_handles = <<>>
    /\ p_dir = IF impl = "DirectoryStream" THEN Path(<<>>, "native") ELSE DotPath
    /\ p_current = DotPath
    /\ p_de = NUL
    /\ yielded = <<>>
    /\ status = "none"
    /\ phase = "closed"
    /\ peak = 0
    /\ peer = NoPeer
    /\ reuses = 0

(***************************************************************************)
(* dir_range_impl                                                          *)
(***************************************************************************)
\* dir_range_impl::open(p)
DirOpen ==
    /\ impl = "dir_range_impl"
    /\ phase = "closed"
    /\ LET o == opendir(fs, tab, base.str)
       IN  IF o.d = 0
           THEN /\ status' = "abort"
                /\ phase' = "aborted"
                /\ UNCHANGED <<tab, p_handle, p_dir, p_current, yielded, peak>>
           ELSE \E r \in dir_read_next(o.tab, o.d, p_current, base) :
                    /\ tab' = r.tab
                    /\ p_handle' = o.d
                    /\ p_dir' = base
                    /\ p_current' = r.cur
                    /\ yielded' = IF r.exc = "abort" THEN yielded ELSE Yield(yielded, r.cur)
                    /\ status' = ExcStatus(r.exc)
                    /\ phase' = IF r.exc = "abort" THEN "aborted" ELSE "open"
                    /\ peak' = Max(peak, OpenCount(r.tab))
    /\ UNCHANGED <<fs, base, impl, peer, reuses, p_handles, p_de, pathvars, globvars, statvars, rangevars>>

\* dir_range_impl::read_next()
DirReadNext ==
    /\ impl = "dir_range_impl"
    /\ phase = "open"
    /\ status = "ok"
    /\ \E r \in dir_read_next(tab, p_handle, p_current, p_dir) :
           /\ tab' = r.tab
           /\ p_current' = r.cur
           /\ yielded' = IF r.exc = "abort" THEN yielded ELSE Yield(yielded, r.cur)
           /\ status' = ExcStatus(r.exc)
           /\ phase' = IF r.exc = "abort" THEN "aborted" ELSE phase
    /\ UNCHANGED <<fs, base, impl, peer, reuses, p_handle, p_handles, p_dir, p_de, peak, pathvars, globvars, statvars, rangevars>>

\* dir_range_impl::close(): closedir on a stream that is closed already is
\* undefined; closedir on the null pointer of a range that was never opened
\* fails with an error code or crashes, as the C library has it
DirClose ==
    /\ impl = "dir_range_impl"
    /\ phase \in {"closed", "open", "done"}
    /\ status # "ub"
    /\ IF p_handle = 0
       THEN tab' = tab /\ status' \in {status, "ub"}
       ELSE /\ tab' = closedir(tab, p_handle)
            /\ status' = IF tab[p_handle].open THEN status ELSE "ub"
    /\ phase' = "done"
    /\ UNCHANGED <<fs, base, impl, peer, reuses, p_handle, p_handles, p_dir, p_current, p_de,
                   yielded, peak, pathvars, globvars, statvars, rangevars>>

(***************************************************************************)
(* DirectoryStream                                                         *)
(***************************************************************************)
\* DirectoryStream::front(), as the string handed to FileInfo
front(path_, d_name) == path_ \o <<"/">> \o d_name

\* DirectoryStream::pop_front(d, de): the outcomes are the name left in *de
\* (NUL when the call returns false) and the table afterwards
pop_front(tb, d) ==
    IF d = 0 THEN {[name |-> NUL, tab |-> tb]}
    ELSE readdir_until(tb, d, Sentinels)

\* the most calls beyond a single traversal a DirectoryStream is followed
\* through: an open() that is not its first, rewind(), size(), swap() and
\* move-assignment
MaxReuse == 1

\* one more such call
Reuse ==
    /\ reuses < MaxReuse
    /\ reuses' = reuses + 1

\* DirectoryStream::open(path): refused while p_d is set, allowed again
\* once it is null
StreamOpen ==
    /\ impl = "DirectoryStream"
    /\ phase \in {"closed", "open", "reused", "done"}
    /\ IF phase = "closed" THEN UNCHANGED reuses ELSE Reuse
    /\ IF p_handle # 0
       THEN /\ status' = "false"
            /\ UNCHANGED <<tab, p_handle, p_de, p_dir, peak, yielded, phase>>
       ELSE /\ LET o == opendir(fs, tab, base.str)
               IN  \E r \in pop_front(o.tab, o.d) :
                       IF r.name = NUL
                       THEN /\ tab' = IF o.d # 0 THEN closedir(r.tab, o.d) ELSE r.tab
                            /\ p_handle' = 0
                            /\ p_de' = NUL
                            /\ status' = "false"
                            /\ peak' = Max(peak, OpenCount(o.tab))
                            /\ UNCHANGED <<p_dir, yielded>>
                       ELSE /\ tab' = r.tab
                            /\ p_handle' = o.d
                            /\ p_de' = r.name
                            /\ p_dir' = base
                            /\ status' = "true"
                            /\ peak' = Max(peak, OpenCount(o.tab))
                            /\ yielded' = Append(yielded, front(base.str, r.name))
            /\ phase' = IF phase = "closed" THEN "open" ELSE "reused"
    /\ UNCHANGED <<fs, base, impl, peer, p_handles, p_current, pathvars, globvars, statvars, rangevars>>

\* DirectoryStream::pop_front() and DirectoryRange::pop_front()
StreamPopFront ==
    /\ impl = "DirectoryStream"
    /\ phase \in {"open", "reused"}
    /\ \E r \in pop_front(tab, p_handle) :
           /\ tab' = r.tab
           /\ p_de' = IF p_handle = 0 THEN p_de ELSE r.name
           /\ status' = IF r.name = NUL THEN "false" ELSE "true"
           /\ yielded' = IF r.name = NUL THEN yielded
                         ELSE Append(yielded, front(p_dir.str, r.name))
    /\ UNCHANGED <<fs, base, impl, peer, reuses, p_handle, p_handles, p_dir, p_current, phase,
                   peak, pathvars, globvars, statvars, rangevars>>

\* rewinddir(3): every name of the directory is left to read again
rewinddir(t, tb, d) == [tb EXCEPT ![d].left = Children(t, tb[d].node) \cup Sentinels]

\* DirectoryStream::rewind()
StreamRewind ==
    /\ impl = "DirectoryStream"
    /\ phase \in {"open", "reused"}
    /\ Reuse
    /\ IF p_handle = 0
       THEN /\ status' = "false"
            /\ UNCHANGED <<tab, p_handle, p_de, yielded>>
       ELSE \E r \in pop_front(rewinddir(fs, tab, p_handle), p_handle) :
                IF r.name = NUL
                THEN /\ tab' = closedir(r.tab, p_handle)
                     /\ p_handle' = 0
                     /\ p_de' = NUL
                     /\ status' = "false"
                     /\ UNCHANGED yielded
                ELSE /\ tab' = r.tab
                     /\ p_de' = r.name
                     /\ status' = "true"
                     /\ yielded' = Append(yielded, front(p_dir.str, r.name))
                     /\ UNCHANGED p_handle
    /\ phase' = "reused"
    /\ UNCHANGED <<fs, base, impl, peer, p_handles, p_dir, p_current, peak,
                   pathvars, globvars, statvars, rangevars>>

\* DirectoryStream::size(): a second stream on p_path is read to its end and
\* closed; the status is the number returned
StreamSize ==
    /\ impl = "DirectoryStream"
    /\ phase \in {"open", "reused"}
    /\ Reuse
    /\ LET o == opendir(fs, tab, p_dir.str)
       IN  IF p_handle = 0 \/ o.d = 0
           THEN /\ status' = "-1"
                /\ UNCHANGED <<tab, peak>>
           ELSE /\ tab' = closedir([o.tab EXCEPT ![o.d].left = {}], o.d)
                /\ peak' = Max(peak, OpenCount(o.tab))
                /\ status' = ToString(Cardinality(Children(fs, o.tab[o.d].node)))
    /\ UNCHANGED <<fs, base, impl, peer, p_handle, p_handles, p_dir, p_current, p_de,
                   yielded, phase, pathvars, globvars, statvars, rangevars>>

\* DirectoryStream::swap(s)
StreamSwap ==
    /\ impl = "DirectoryStream"
    /\ phase \in {"closed", "open", "reused", "done"}
    /\ Reuse
    /\ p_handle' = peer.p_d
    /\ p_de' = peer.p_de
    /\ p_dir' = Path(peer.p_path, "native")
    /\ peer' = [p_d |-> p_handle, p_de |-> p_de, p_path |-> p_dir.str]
    /\ phase' = "reused"
    /\ UNCHANGED <<fs, base, impl, tab, p_handles, p_current, yielded, status, peak,
                   pathvars, globvars, statvars, rangevars>>

\* DirectoryStream::operator=(DirectoryStream &&s): close(), then swap(s)
StreamMoveAssign ==
    /\ impl = "DirectoryStream"
    /\ phase \in {"closed", "open", "reused", "done"}
    /\ Reuse
    /\ tab' = IF p_handle # 0 THEN closedir(tab, p_handle) ELSE tab
    /\ p_handle' = peer.p_d
    /\ p_de' = peer.p_de
    /\ p_dir' = Path(peer.p_path, "native")
    /\ peer' = [p_d |-> 0, p_de |-> NUL, p_path |-> p_dir.str]
    /\ phase' = "reused"
    /\ UNCHANGED <<fs, base, impl, p_handles, p_current, yielded, status, peak,
                   pathvars, globvars, statvars, rangevars>>

\* DirectoryStream::close()
StreamClose ==
    /\ impl = "DirectoryStream"
    /\ phase \in {"closed", "open", "reused", "done"}
    /\ tab' = IF p_handle # 0 THEN closedir(tab, p_handle) ELSE tab
    /\ p_handle' = 0
    /\ p_de' = NUL
    /\ phase' = "done"
    /\ UNCHANGED <<fs, base, impl, peer, reuses, p_handles, p_dir, p_current, yielded, status,
                   peak, pathvars, globvars, statvars, rangevars>>

\* the directories read one level deep
DirTrees == FlatTrees \cup TreesUpTo(2)

InitDir == DirInit(DirTrees, {"dir_range_impl", "DirectoryStream"})

NextDir ==
    \/ DirOpen
    \/ DirReadNext
    \/ DirClose
    \/ StreamOpen
    \/ StreamPopFront
    \/ StreamRewind
    \/ StreamSize
    \/ StreamSwap
    \/ StreamMoveAssign
    \/ StreamClose

SpecDir == InitDir /\ [][NextDir]_vars

(***************************************************************************)
(* rdir_range_impl                                                         *)
(***************************************************************************)
RState(tb, hs, pdir, pcur, st, pk) ==
    [tab |-> tb, p_handles |-> hs, p_dir |-> pdir, p_current |-> pcur,
     status |-> st, peak |-> pk]

\* the end of rdir_range_impl::read_next(): the top stream was at its end
\* and has been closed and popped (tb, hs); the stream below it, if there is
\* one, is read once after p_dir.remove_name(), which may throw
rdir_popped(tb, hs, pdir, pcur, rn, pk) ==
    IF hs # <<>>
    THEN IF rn.exc # "none"
         THEN {RState(tb, hs, pdir, pcur, rn.exc, pk)}
         ELSE {RState(r.tab, hs, Path(rn.str, pdir.fmt), r.cur, ExcStatus(r.exc), pk) :
                   r \in dir_read_next(tb, Top(hs), pcur, Path(rn.str, pdir.fmt))}
    ELSE {RState(tb, hs, pdir, ClearedEntry(pcur), "ok", pk)}

\* rdir_range_impl::read_next() from "didn't recurse into a directory, go
\* to next file" on, for each state x (tab, peak) the first half left
rdir_next_file(xs, hs, pdir, pcur) ==
    UNION {UNION {IF r.exc = "abort" \/ ~empty(r.cur)
                  THEN {RState(r.tab, hs, pdir, r.cur, ExcStatus(r.exc), x.peak)}
                  ELSE rdir_popped(closedir(r.tab, Top(hs)), Pop(hs), pdir, r.cur,
                                   remove_name(pdir), x.peak) :
                      r \in dir_read_next(x.tab, Top(hs), pcur, pdir)} :
               x \in xs}

\* the first half of rdir_range_impl::read_next(): a current entry that is a
\* directory is opened and read; opened is the stream (0 when the entry is
\* no directory), r what was read from it
rdir_probe(t, tb, pcur) ==
    IF is_directory(t, pcur.str)
    THEN {[opened |-> Len(tb) + 1, r |-> r] :
              r \in dir_read_next(opendir(t, tb, pcur.str).tab, Len(tb) + 1, DotPath, pcur)}
    ELSE {[opened |-> 0, r |-> cleared(tb, DotPath)]}

\* a probe whose stream is left open when the directory holds nothing
probe_left_open(x) == x.r.tab

\* closedir(nd): the stream opened on a directory that holds nothing is
\* closed again; no stream was opened on an entry that is no directory
probe_closed(x) == IF x.opened # 0 THEN closedir(x.r.tab, x.opened) ELSE x.r.tab

\* rdir_range_impl::read_next(): status() aborts when stat fails
rdir_read_next(t, tb, hs, pdir, pcur, pk) ==
    IF hs = <<>> THEN {RState(tb, hs, pdir, pcur, "ok", pk)}
    ELSE IF ~OsResolve(t, pcur.str).ok THEN {RState(tb, hs, pdir, pcur, "abort", pk)}
    ELSE LET probes == rdir_probe(t, tb, pcur)
             pk1 == IF is_directory(t, pcur.str) THEN Max(pk, OpenCount(tb) + 1) ELSE pk
             dead == {x \in probes : x.r.exc = "abort"}
             down == {x \in probes \ dead : ~empty(x.r.cur)}
         IN  {RState(x.r.tab, hs, pdir, pcur, "abort", pk1) : x \in dead}
             \cup
             {RState(x.r.tab, Append(hs, x.opened), pcur, x.r.cur, ExcStatus(x.r.exc), pk1) :
                  x \in down}
             \cup
             rdir_next_file({[tab |-> probe_closed(x), peak |-> pk1] :
                                 x \in probes \ (down \cup dead)},
                            hs, pdir, pcur)

\* the range takes on the state read_next left
RDirTake(r) ==
    /\ tab' = r.tab
    /\ p_handles' = r.p_handles
    /\ p_dir' = r.p_dir
    /\ p_current' = r.p_current
    /\ status' = r.status
    /\ peak' = r.peak
    /\ yielded' = IF r.status = "ok" THEN Yield(yielded, r.p_current) ELSE yielded
    /\ phase' = IF r.status = "abort" THEN "aborted" ELSE "open"

\* rdir_range_impl::open(p): p_current is still the entry the range was
\* constructed with when read_next looks at it
RDirOpen ==
    /\ impl = "rdir_range_impl"
    /\ phase = "closed"
    /\ LET o == opendir(fs, tab, base.str)
       IN  IF o.d = 0
           THEN /\ status' = "abort"
                /\ phase' = "aborted"
                /\ UNCHANGED <<tab, p_handles, p_dir, p_current, yielded, peak>>
           ELSE \E r \in rdir_read_next(fs, o.tab, Append(p_handles, o.d), base,
                                        p_current, Max(peak, OpenCount(o.tab))) :
                    RDirTake(r)
    /\ UNCHANGED <<fs, base, impl, peer, reuses, p_handle, p_de, pathvars, globvars, statvars, rangevars>>

\* rdir_range_impl::read_next(), called on a range that has an entry
RDirReadNext ==
    /\ impl = "rdir_range_impl"
    /\ phase = "open"
    /\ status = "ok"
    /\ ~empty(p_current)
    /\ \E r \in rdir_read_next(fs, tab, p_handles, p_dir, p_current, peak) :
           RDirTake(r)
    /\ UNCHANGED <<fs, base, impl, peer, reuses, p_handle, p_de, pathvars, globvars, statvars, rangevars>>

\* a close() that closes the top stream alone
closedir_top(tb, hs) == IF hs = <<>> THEN tb ELSE closedir(tb, Top(hs))

RECURSIVE closedir_all(_, _)
closedir_all(tb, hs) ==
    IF hs = <<>> THEN tb ELSE closedir_all(closedir(tb, Top(hs)), Pop(hs))

\* rdir_range_impl::close()
RDirClose ==
    /\ impl = "rdir_range_impl"
    /\ phase \in {"closed", "open", "done"}
    /\ tab' = closedir_all(tab, p_handles)
    /\ p_handles' = <<>>
    /\ phase' = "done"
    /\ UNCHANGED <<fs, base, impl, peer, reuses, p_handle, p_dir, p_current, p_de, yielded, status,
                   peak, pathvars, globvars, statvars, rangevars>>

InitRDir == DirInit(Trees, {"rdir_range_impl"})

NextRDir ==
    \/ RDirOpen
    \/ RDirReadNext
    \/ RDirClose

SpecRDir == InitRDir /\ [][NextRDir]_vars

(***************************************************************************)
(* The three directory cursors side by side: a cursor of either kind is    *)
(* constructed, opened, advanced and closed.                               *)
(***************************************************************************)
InitCursor ==
    DirInit(Trees \cup FlatTrees, {"dir_range_impl", "DirectoryStream", "rdir_range_impl"})

NextCursor ==
    \/ NextDir
    \/ NextRDir

SpecCursor == InitCursor /\ [][NextCursor]_vars

(***************************************************************************)
(* Properties of the path value type.                                      *)
(***************************************************************************)
\* the raw string of pp is normalized, reading "separator" as the separator
\* of the path's own format
IsNormalized(pp) ==
    LET s == pp.str
        n == Len(s)
        sep == separator(pp.fmt)
        win == is_win(pp.fmt)
        rootform == \/ s = <<sep>>
                    \/ win /\ s = <<"\\", "\\">>
                    \/ win /\ n = 3 /\ has_letter(s)
    IN  /\ s # <<>>
        /\ \A i \in 1 .. (n - 1) :
               (s[i] = sep /\ s[i + 1] = sep) => (win /\ i = 1)
        /\ (s # <<".">>) =>
               \A i \in 1 .. n :
                   (s[i] = ".") =>
                       ~ /\ (i = 1 \/ s[i - 1] = sep)
                         /\ (i = n \/ s[i + 1] = sep)
        /\ (n > 0 /\ s[n] = sep) => rootform

\* C1: after any sequence of path operations the raw string of the path is
\* normalized: not empty, no two adjacent separators (apart from a leading
\* UNC double backslash), no "." segment unless the path is ".", no trailing
\* separator unless the path is a root or a drive-root.
C1_AlwaysNormalized == (exc # "ub") => IsNormalized(p)

\* C2: constructing a path from the string of a constructed path yields the
\* same raw string: normalize(normalize(s)) = normalize(s).
C2_Idempotent == (op = "reconstruct") => (p.str = q.str)

\* C3: joining a path with the current-directory path path(".") leaves its
\* raw string as it was.
C3_NeutralJoin ==
    [][(op' = "join" /\ q' = DotPath /\ exc' = "none") => (p'.str = p.str)]_vars

\* C4: for all p and q of either format with q.is_absolute(), p.join(q)
\* equals q translated to the format of p.
C4_AnchorOverride ==
    [][(op' = "join" /\ is_absolute(q') /\ exc' = "none")
          => (p' = path_convert(q', p.fmt))]_vars

\* two paths are equal after translating both to a common format
same_path(a, b) == path_convert(a, "posix").str = path_convert(b, "posix").str

\* p.parent().join(p.name()), q being p and p being p.parent()
parent_join_name ==
    Path(append(p, path_from_string(name(q), "native"), FALSE).str, p.fmt)

\* C5: for every path with a non-empty name, parent().join(name()) equals
\* the path, single-component paths included.
C5_ParentJoinName ==
    (op = "parent" /\ has_name(q)) => same_path(parent_join_name, q)

\* the text after the last "." of s
last_ext(s) == Slice(s, find_last(s, ".", 0) + 1, Len(s))

dots(s) == Cardinality({i \in 1 .. Len(s) : s[i] = "."})

\* C6 as stated: whenever has_suffix(p), stem(p) + "." + the last extension
\* of suffixes(p) equals name(p), names with several extensions included.
C6_StemDotLastSuffix ==
    (exc # "ub" /\ has_suffix(p)) =>
        (stem(p) \o <<".">> \o last_ext(suffixes(p)) = name(p))

\* C6 as amended: whenever has_suffix(p), stem(p) + suffixes(p) equals
\* name(p); stem(p) + "." + the last extension equals name(p) when the name
\* holds exactly one ".".
C6_StemPlusSuffixes ==
    (exc # "ub" /\ has_suffix(p)) =>
        /\ stem(p) \o suffixes(p) = name(p)
        /\ (dots(name(p)) = 1) =>
               (stem(p) \o <<".">> \o last_ext(suffixes(p)) = name(p))

\* a path whose name has a stem and two extensions
C6_Witness ==
    /\ op \in {"construct", "concat", "join", "replace_suffix"}
    /\ exc = "none"
    /\ has_suffix(p)
    /\ stem(p) # <<>>
    /\ dots(name(p)) = 2
    /\ stem(p) \o suffixes(p) = name(p)

\* C7: a posix-format path converted to windows format and back to posix
\* format has the raw string and the format it had; q is the posix path and
\* p its conversion to windows format.
C7_RoundTrip ==
    (op = "convert" /\ q.fmt = "posix" /\ p.fmt = "windows")
        => (path_convert(p, "posix") = q)

\* the root and drive-root forms of a format
RootForms(fmt) ==
    IF is_win(fmt)
    THEN {<<"\\">>, <<"\\", "\\">>, <<"c", ":", "\\">>}
    ELSE {<<"/">>}

\* C8: constructed from a bare root or drive-root ("/" in posix format; "\",
\* "\\" and "X:\" in windows format) the path is that string unchanged, and
\* constructed from "", "." or "./" it is ".".
C8_RootsPreserved ==
    (op = "construct") =>
        /\ (q.str \in RootForms(q.fmt)) => (p.str = q.str)
        /\ (q.str \in {<<>>, <<".">>, <<".", "/">>}) => (p.str = <<".">>)

(***************************************************************************)
(* Properties of the directory ranges.                                     *)
(***************************************************************************)
\* the node the range was opened at, and whether it is a directory
BaseNode == OsResolve(fs, base.str).node
BaseIsDir == is_directory(fs, base.str)

\* the nodes the yielded strings name (the root for a string naming nothing)
YieldedNodes == [i \in 1 .. Len(yielded) |-> OsResolve(fs, yielded[i]).node]

\* the last component of a yielded string
LastName(s) == LET cs == Split(s, <<>>) IN IF cs = <<>> THEN <<>> ELSE cs[Len(cs)]

\* a single-level range or stream that has no current entry
Exhausted ==
    /\ phase = "open"
    /\ \/ impl = "dir_range_impl" /\ empty(p_current)
       \/ impl = "DirectoryStream" /\ p_de = NUL

\* what DirectoryStream::size() returns, as a status
SizeResults == {"-1"} \cup {ToString(n) : n \in 0 .. MaxNodes}

\* C9: a single-level range opened at a directory never ends in an error,
\* never yields "." or "..", yields no entry twice, yields entries of the
\* directory only, and has yielded every entry of it once it is exhausted
C9_SingleLevelComplete ==
    (impl \in {"dir_range_impl", "DirectoryStream"} /\ BaseIsDir /\ phase = "open") =>
        /\ status \in {"ok", "true", "false"} \cup SizeResults
        /\ \A i \in 1 .. Len(yielded) :
               /\ LastName(yielded[i]) \notin Sentinels
               /\ OsResolve(fs, yielded[i]).ok
               /\ YieldedNodes[i] = Append(BaseNode, LastName(yielded[i]))
        /\ \A i, j \in 1 .. Len(yielded) : (i # j) => (YieldedNodes[i] # YieldedNodes[j])
        /\ Exhausted =>
               ({LastName(yielded[i]) : i \in 1 .. Len(yielded)} = Children(fs, BaseNode))

\* a dir_range_impl read three entries, a hidden one among them, and the
\* read_next after the last one left it exhausted
C9_Witness ==
    /\ impl = "dir_range_impl"
    /\ Exhausted
    /\ status = "ok"
    /\ Len(yielded) = 3
    /\ \E i \in 1 .. 3 : LastName(yielded[i]) = <<".", "c">>
    /\ tab[p_handle].left = {}

\* a recursive range that reports no current entry, or whose read_next threw
RFinished ==
    /\ impl = "rdir_range_impl"
    /\ phase = "open"
    /\ (status # "ok") \/ empty(p_current)

IsPrefix(a, b) == Len(a) < Len(b) /\ SubSeq(b, 1, Len(a)) = a

\* C10: a recursive range opened at a directory ends without an error, and
\* by then it has yielded every entry below the directory exactly once,
\* each directory before the entries below it and all the entries below a
\* directory before the next entry that is not below it
C10_PreorderComplete ==
    (RFinished /\ BaseIsDir) =>
        /\ status = "ok"
        /\ \A i \in 1 .. Len(yielded) : OsResolve(fs, yielded[i]).ok
        /\ {YieldedNodes[i] : i \in 1 .. Len(yielded)} = Below(fs, BaseNode)
        /\ \A i, j \in 1 .. Len(yielded) : (i # j) => (YieldedNodes[i] # YieldedNodes[j])
        /\ \A i, j \in 1 .. Len(yielded) :
               IsPrefix(YieldedNodes[i], YieldedNodes[j]) => (i < j)
        /\ \A i, j, k \in 1 .. Len(yielded) :
               (i < j /\ j < k /\ IsPrefix(YieldedNodes[i], YieldedNodes[k]))
                   => IsPrefix(YieldedNodes[i], YieldedNodes[j])

\* C11: after open and after every read_next of a recursive range, the stack
\* of streams is empty exactly when the range has no current entry, every
\* stream on the stack is open, and every stream not on the stack is closed
C11_StackIffExhausted ==
    (impl = "rdir_range_impl" /\ phase = "open") =>
        /\ (p_handles = <<>>) <=> empty(p_current)
        /\ \A i \in 1 .. Len(p_handles) : tab[p_handles[i]].open
        /\ \A d \in 1 .. Len(tab) :
               (\A i \in 1 .. Len(p_handles) : p_handles[i] # d) => ~tab[d].open

\* the depth of an entry below the directory the range was opened at: 1 for
\* an entry of that directory itself
EntryDepth(n) == Len(n) - Len(BaseNode)

\* the depth of the tree below the directory the range was opened at
TreeDepth ==
    LET ds == {EntryDepth(n) : n \in Below(fs, BaseNode)}
    IN  CHOOSE d \in ds : \A e \in ds : e <= d

\* C12: on a tree of depth D a recursive range never holds more than D
\* streams open, the stream opened to probe a directory counted, and while
\* it has a current entry its stack is as deep as that entry lies
C12_HandleBound ==
    (impl = "rdir_range_impl" /\ phase = "open" /\ BaseIsDir
        /\ Below(fs, BaseNode) # {}) =>
        /\ peak <= TreeDepth
        /\ (status = "ok" /\ ~empty(p_current) /\ OsResolve(fs, p_current.str).ok) =>
               (Len(p_handles) = EntryDepth(OsResolve(fs, p_current.str).node))

\* every stream the cursor ever opened is closed, and was closed once; a
\* stream that swap handed to another DirectoryStream is that one's to close
AllReleasedOnce ==
    \A d \in 1 .. Len(tab) : (d # peer.p_d) => (~tab[d].open /\ tab[d].closes = 1)

\* C13: whenever an open cursor of either kind is closed (freshly opened,
\* in the middle of a traversal, exhausted, or after an open or an advance
\* that failed, or after it was rewound, opened again or swapped), every
\* stream it ever opened and still owns has been closed exactly once and
\* none is left open
C13_ReleasedOnClose ==
    [][(phase \in {"open", "reused"} /\ phase' = "done") => AllReleasedOnce']_vars

\* a recursive range closed in the middle of a traversal, with a current
\* entry two levels down and at least three streams opened before
C13_Witness ==
    /\ impl = "rdir_range_impl"
    /\ phase = "done"
    /\ status = "ok"
    /\ ~empty(p_current)
    /\ Len(yielded) >= 2
    /\ Len(tab) >= 3
    /\ AllReleasedOnce

\* what a cursor and the OS hold, the bookkeeping of the model left out
CursorState == <<tab, p_handle, p_handles, p_dir, p_current, p_de, status>>

\* C14: close() on a cursor that is closed already, or that was never
\* opened, changes no state and calls closedir on no stream a second time
C14_CloseIdempotent ==
    [][(phase \in {"closed", "done"} /\ phase' = "done") =>
          /\ CursorState' = CursorState
          /\ \A d \in 1 .. Len(tab') : tab'[d].closes <= 1]_vars

\* C15: no failure of the OS in opening or advancing a directory cursor
\* ends the process: the call returns to its caller with an error
C15_NoAbort == (status # "abort") /\ (phase # "aborted")

(***************************************************************************)
(* The glob matcher.  A filename and a pattern segment are strings; the    *)
(* segment matcher compares them character by character.                   *)
(***************************************************************************)
\* the longest filename and the longest pattern segment drawn
MaxName == 4
MaxPattern == 3

GlobChars == {"a", "b", ".", "*", "\\"}

Str(n, cs) == UNION {[1 .. k -> cs] : k \in 0 .. n}

\* the filenames and the pattern of the literal scenarios
ReportTxt == <<"r", "e", "p", "o", "r", "t", ".", "t", "x", "t">>
ReportTxtBak == ReportTxt \o <<".", "b", "a", "k">>
DotTxt == <<".", "t", "x", "t">>
StarDotTxt == <<"*", ".", "t", "x", "t">>
EscapedStar == <<"a", "\\", "*", "b">>

GlobNames == Str(MaxName, GlobChars) \cup {ReportTxt, ReportTxtBak, DotTxt, <<"a", "x", "b">>}
GlobPatterns == Str(MaxPattern, GlobChars) \cup {StarDotTxt, EscapedStar}

\* the pattern after a run of consecutive asterisks
RECURSIVE skip_stars(_)
skip_stars(w) == IF w # <<>> /\ Head(w) = "*" THEN skip_stars(Tail(w)) ELSE w

\* a matcher whose asterisk stands for one character or more
RECURSIVE matches_star_one(_, _)
matches_star_one(f, w) ==
    IF w = <<>> THEN f = <<>>
    ELSE IF Head(w) = "*"
         THEN f # <<>> /\ LET rest == skip_stars(w)
                          IN  \/ rest = <<>>
                              \/ \E k \in 2 .. Len(f) + 1 :
                                     matches_star_one(SubSeq(f, k, Len(f)), rest)
    ELSE IF Head(w) = "\\" /\ Len(w) >= 2
         THEN f # <<>> /\ Head(f) = w[2]
                       /\ matches_star_one(Tail(f), SubSeq(w, 3, Len(w)))
    ELSE f # <<>> /\ Head(f) = Head(w) /\ matches_star_one(Tail(f), Tail(w))

\* a matcher to which the backslash is an ordinary character
RECURSIVE matches_no_escape(_, _)
matches_no_escape(f, w) ==
    IF w = <<>> THEN f = <<>>
    ELSE IF Head(w) = "*"
         THEN LET rest == skip_stars(w)
              IN  \/ rest = <<>>
                  \/ \E k \in 1 .. Len(f) + 1 :
                         matches_no_escape(SubSeq(f, k, Len(f)), rest)
    ELSE f # <<>> /\ Head(f) = Head(w) /\ matches_no_escape(Tail(f), Tail(w))

\* matches(filename, pattern_segment): the literal prefix is compared up to
\* the first unescaped asterisk, a backslash making the character after it
\* literal; a run of asterisks is consumed, and with nothing after it the
\* rest of the filename can be anything; otherwise every split point of the
\* filename is tried until the rest of the pattern matches.  The filename
\* is to be consumed whole.
RECURSIVE matches(_, _)
matches(f, w) ==
    IF w = <<>> THEN f = <<>>
    ELSE IF Head(w) = "*"
         THEN LET rest == skip_stars(w)
              IN  \/ rest = <<>>
                  \/ \E k \in 1 .. Len(f) + 1 : matches(SubSeq(f, k, Len(f)), rest)
    ELSE IF Head(w) = "\\" /\ Len(w) >= 2
         THEN f # <<>> /\ Head(f) = w[2] /\ matches(Tail(f), SubSeq(w, 3, Len(w)))
    ELSE f # <<>> /\ Head(f) = Head(w) /\ matches(Tail(f), Tail(w))

\* a filename and a pattern segment, not yet compared
InitMatch ==
    /\ p = DotPath /\ q = DotPath /\ op = "glob" /\ exc = "none"
    /\ DirIdle /\ StatIdle /\ RangeIdle
    /\ fname \in GlobNames
    /\ wname \in GlobPatterns
    /\ matched = "none"
    /\ pattern = <<>>
    /\ sink = EmptyBag

Match ==
    /\ op = "glob"
    /\ matched = "none"
    /\ matched' = IF matches(fname, wname) THEN "true" ELSE "false"
    /\ UNCHANGED <<fname, wname, pattern, sink, pathvars, dirvars, statvars, rangevars>>

NextMatch == Match

SpecMatch == InitMatch /\ [][NextMatch]_vars

\* the characters a pattern may hold that stand for themselves
IsLiteral(s) == \A i \in 1 .. Len(s) : s[i] \notin {"*", "\\"}
EndsWith(f, s) == Len(f) >= Len(s) /\ SubSeq(f, Len(f) - Len(s) + 1, Len(f)) = s

\* C16: the pattern *.txt matches report.txt and matches neither
\* report.txt.bak nor .txt
C16_StarTxtScenario ==
    (matched # "none" /\ wname = StarDotTxt) =>
        /\ (fname = ReportTxt => matched = "true")
        /\ (fname \in {ReportTxtBak, DotTxt} => matched = "false")

\* C16 (amended): an asterisk followed by a literal suffix matches exactly
\* the filenames that end with the suffix, the suffix alone among them, so
\* that *.txt matches report.txt and .txt and does not match report.txt.bak
C16_StarSuffix ==
    (matched # "none" /\ wname # <<>> /\ Head(wname) = "*" /\ IsLiteral(Tail(wname))) =>
        ((matched = "true") <=> EndsWith(fname, Tail(wname)))

C16_Witness == wname = StarDotTxt /\ fname = DotTxt /\ matched = "true"

\* the pattern holds no asterisk but escaped ones
RECURSIVE NoBareStar(_)
NoBareStar(w) ==
    IF w = <<>> THEN TRUE
    ELSE IF Head(w) = "\\" /\ Len(w) >= 2 THEN NoBareStar(SubSeq(w, 3, Len(w)))
    ELSE Head(w) # "*" /\ NoBareStar(Tail(w))

\* the filename an asterisk-free pattern spells, its escapes taken off
RECURSIVE Unescaped(_)
Unescaped(w) ==
    IF w = <<>> THEN <<>>
    ELSE IF Head(w) = "\\" /\ Len(w) >= 2 THEN <<w[2]>> \o Unescaped(SubSeq(w, 3, Len(w)))
    ELSE <<Head(w)>> \o Unescaped(Tail(w))

\* C18: a backslash makes the character after it literal: a pattern whose
\* asterisks are all escaped matches the one filename it spells, so the
\* pattern a, escaped asterisk, b matches a*b and no other filename
C18_EscapeLiteral ==
    (matched # "none" /\ NoBareStar(wname)) =>
        ((matched = "true") <=> (fname = Unescaped(wname)))

C18_Witness ==
    /\ wname = EscapedStar
    /\ matched = "true"
    /\ fname = <<"a", "*", "b">>

(***************************************************************************)
(* The expansion driver of the glob matcher.  A pattern is a sequence of   *)
(* segments; an accumulated path is a node of the tree, named or not by an *)
(* entry.  The sink is a bag: it holds a record of an emitted path and of  *)
(* the candidates chosen on the way to it once for each time it was put in.*)
(***************************************************************************)
SegA == <<"a">>
SegB == <<"b">>
SegC == <<"c">>
SegZ == <<"z">>
SegAB == <<"a", "b">>
SegStar == <<"*">>
SegAStar == <<"a", "*">>
SegStarStar == <<"*", "*">>

\* the tree of the literal scenario: a/z, a/b/z, a/b/c/z and ab/z
ScenarioTree ==
    {[path |-> <<SegA>>, dir |-> TRUE],
     [path |-> <<SegA, SegZ>>, dir |-> FALSE],
     [path |-> <<SegA, SegB>>, dir |-> TRUE],
     [path |-> <<SegA, SegB, SegZ>>, dir |-> FALSE],
     [path |-> <<SegA, SegB, SegC>>, dir |-> TRUE],
     [path |-> <<SegA, SegB, SegC, SegZ>>, dir |-> FALSE],
     [path |-> <<SegAB>>, dir |-> TRUE],
     [path |-> <<SegAB, SegZ>>, dir |-> FALSE]}

\* the scenario tree and the trees that hold a part of it
GlobTrees ==
    {t \in SUBSET ScenarioTree :
        \A e \in t : Len(e.path) > 1 =>
            [path |-> SubSeq(e.path, 1, Len(e.path) - 1), dir |-> TRUE] \in t}

\* the pattern a/**/z of the literal scenario and others of its segments
ScenarioPattern == <<SegA, SegStarStar, SegZ>>
GlobPatternSeqs ==
    {ScenarioPattern, <<SegA, SegStarStar>>, <<SegStarStar, SegZ>>, <<SegStarStar>>,
     <<SegA, SegStar, SegZ>>, <<SegStar, SegZ>>, <<SegStar>>, <<SegAStar, SegZ>>,
     <<SegA, SegZ>>, <<SegStarStar, SegStarStar>>, <<>>}

\* the classes of a pattern segment
is_recursive(seg) == seg = SegStarStar
is_wildcard(seg) == (\E i \in 1 .. Len(seg) : seg[i] = "*") /\ ~is_recursive(seg)

\* the entries a RecursiveDirectoryCursor rooted at acc visits; none when
\* acc cannot be opened
visited(t, acc) == IF IsDir(t, acc) THEN Below(t, acc) ELSE {}

\* the entries a DirectoryCursor rooted at acc visits
listed(t, acc) == IF IsDir(t, acc) THEN {Append(acc, c) : c \in Children(t, acc)} ELSE {}

\* a sink that is handed the accumulated path twice
emit_twice(acc, via) ==
    SetToBag({[path |-> acc, via |-> via]}) (+) SetToBag({[path |-> acc, via |-> via]})

\* the sink accepts one completed path; via tells the candidates chosen on
\* the way to it
emit(acc, via) == SetToBag({[path |-> acc, via |-> via]})

\* expand(pattern_segments, sink, accumulated_path): what it puts into the
\* sink, and how many times; expand_each recurses into the remaining
\* pattern against each candidate's path
RECURSIVE expand(_, _, _, _), expand_each(_, _, _, _)
expand(t, segs, acc, via) ==
    IF segs = <<>> THEN emit(acc, via)
    ELSE IF is_recursive(Head(segs))
         THEN expand_each(t, Tail(segs),
                          {e \in visited(t, acc) : Tail(segs) # <<>> => IsDir(t, e)}, via)
    ELSE IF is_wildcard(Head(segs))
         THEN expand_each(t, Tail(segs),
                          {e \in listed(t, acc) : matches(e[Len(e)], Head(segs))}, via)
    ELSE expand(t, Tail(segs), Append(acc, Head(segs)), via)

expand_each(t, segs, cand, via) ==
    IF cand = {} THEN EmptyBag
    ELSE LET e == CHOOSE x \in cand : TRUE
         IN  expand(t, segs, e, Append(via, e)) (+) expand_each(t, segs, cand \ {e}, via)

\* a pattern and a tree, not yet expanded
InitGlob ==
    /\ p = DotPath /\ q = DotPath /\ op = "expand" /\ exc = "none"
    /\ StatIdle /\ RangeIdle
    /\ fs \in GlobTrees
    /\ base = DotPath /\ impl = "none" /\ tab = <<>> /\ p_handle = 0
    /\ p_handles = <<>> /\ p_dir = DotPath /\ p_current = DotPath /\ p_de = NUL
    /\ yielded = <<>> /\ status = "none" /\ phase = "closed" /\ peak = 0
    /\ peer = NoPeer /\ reuses = 0
    /\ fname = <<>> /\ wname = <<>> /\ matched = "none"
    /\ pattern \in GlobPatternSeqs
    /\ sink = EmptyBag

Expand ==
    /\ op = "expand"
    /\ sink' = expand(fs, pattern, <<>>, <<>>)
    /\ op' = "expanded"
    /\ UNCHANGED <<p, q, exc, fname, wname, matched, pattern, dirvars, statvars, rangevars>>

NextGlob == Expand

SpecGlob == InitGlob /\ [][NextGlob]_vars

Emitted == {e.path : e \in BagToSet(sink)}

\* C17: the pattern a/**/z emits a/z, a/b/z and a/b/c/z, each where the tree
\* holds it, and does not emit ab/z
C17_DoubleStarLevels ==
    (op = "expanded" /\ pattern = ScenarioPattern) =>
        /\ \A n \in {<<SegA, SegZ>>, <<SegA, SegB, SegZ>>, <<SegA, SegB, SegC, SegZ>>} :
               Exists(fs, n) => n \in Emitted
        /\ <<SegAB, SegZ>> \notin Emitted

(***************************************************************************)
(* The file status probe.  struct stat is the return value of stat(2) or   *)
(* lstat(2) and the st_mode it fills in; a perms value is the set of the   *)
(* flags it holds.                                                         *)
(***************************************************************************)
S_IFMT == 61440
S_IFSOCK == 49152
S_IFLNK == 40960
S_IFREG == 32768
S_IFBLK == 24576
S_IFDIR == 16384
S_IFCHR == 8192
S_IFIFO == 4096
S_ISUID == 2048
S_ISGID == 1024
S_ISVTX == 512
S_IRWXU == 448
S_IRUSR == 256
S_IWUSR == 128
S_IXUSR == 64
S_IRWXG == 56
S_IRGRP == 32
S_IWGRP == 16
S_IXGRP == 8
S_IRWXO == 7
S_IROTH == 4
S_IWOTH == 2
S_IXOTH == 1

\* every permission bit of a mode set
ALLPERMS == 4095

\* a & b of two unsigned integers
RECURSIVE BitAnd(_, _)
BitAnd(a, b) ==
    IF a = 0 \/ b = 0 THEN 0
    ELSE (a % 2) * (b % 2) + 2 * BitAnd(a \div 2, b \div 2)

owner_all == {"owner_read", "owner_write", "owner_exec"}
group_all == {"group_read", "group_write", "group_exec"}
others_all == {"others_read", "others_write", "others_exec"}

\* a switch whose cases have no break: control enters at the case equal to
\* v and runs through every later one; no case equal to v, nothing runs
switch_fall(v, cases, flags) ==
    LET hit == {i \in 1 .. Len(cases) : cases[i] = v}
    IN  UNION {flags[j] : j \in {k \in 1 .. Len(cases) : \E i \in hit : i <= k}}

mode_to_perms(mode) ==
    LET u == switch_fall(BitAnd(mode, S_IRWXU),
                         <<S_IRUSR, S_IWUSR, S_IXUSR, S_IRWXU>>,
                         <<{"owner_read"}, {"owner_write"}, {"owner_exec"}, owner_all>>)
        g == switch_fall(BitAnd(mode, S_IRWXG),
                         <<S_IRGRP, S_IWGRP, S_IXGRP, S_IRWXG>>,
                         <<{"group_read"}, {"group_write"}, {"group_exec"}, group_all>>)
        o == switch_fall(BitAnd(mode, S_IRWXO),
                         <<S_IROTH, S_IWOTH, S_IXOTH, S_IRWXO>>,
                         <<{"others_read"}, {"others_write"}, {"others_exec"}, others_all>>)
        su == IF BitAnd(mode, S_ISUID) # 0 THEN {"set_uid"} ELSE {}
        sg == IF BitAnd(mode, S_ISGID) # 0 THEN {"set_gid"} ELSE {}
        sv == IF BitAnd(mode, S_ISVTX) # 0 THEN {"sticky_bit"} ELSE {}
    IN  u \cup g \cup o \cup su \cup sg \cup sv

mode_to_type(mode) ==
    LET f == BitAnd(mode, S_IFMT)
    IN  IF f = S_IFBLK THEN "block"
        ELSE IF f = S_IFCHR THEN "character"
        ELSE IF f = S_IFIFO THEN "fifo"
        ELSE IF f = S_IFREG THEN "regular"
        ELSE IF f = S_IFDIR THEN "directory"
        ELSE IF f = S_IFLNK THEN "symlink"
        ELSE IF f = S_IFSOCK THEN "socket"
        ELSE "unknown"

\* what stat(2) and lstat(2) leave in sb: -1 and nothing, or 0 and a mode
StatResults ==
    {[ret |-> -1, st_mode |-> 0]} \cup
    {[ret |-> 0, st_mode |-> t + m] :
        t \in {0, S_IFBLK, S_IFCHR, S_IFIFO, S_IFREG, S_IFDIR, S_IFLNK, S_IFSOCK},
        m \in 0 .. ALLPERMS}

\* a path whose status is to be asked for
InitStatus ==
    /\ p = DotPath /\ q = DotPath /\ op = "stat" /\ exc = "none"
    /\ DirIdle /\ GlobIdle /\ RangeIdle
    /\ sb \in StatResults
    /\ file_status = NoStatus

\* status(p) and symlink_status(p), the OS call having filled in sb
file_status_of(s) ==
    IF s.ret < 0 THEN [type |-> "abort", perms |-> {}]
    ELSE [type |-> mode_to_type(s.st_mode), perms |-> mode_to_perms(s.st_mode)]

Status ==
    /\ op = "stat"
    /\ file_status' = file_status_of(sb)
    /\ op' = "status"
    /\ UNCHANGED <<p, q, exc, sb, dirvars, globvars, rangevars>>

SymlinkStatus ==
    /\ op = "stat"
    /\ file_status' = file_status_of(sb)
    /\ op' = "symlink_status"
    /\ UNCHANGED <<p, q, exc, sb, dirvars, globvars, rangevars>>

NextStatus == Status \/ SymlinkStatus

SpecStatus == InitStatus /\ [][NextStatus]_vars

\* the mode bit each perms flag stands for
PermBit ==
    [owner_read |-> S_IRUSR, owner_write |-> S_IWUSR, owner_exec |-> S_IXUSR,
     group_read |-> S_IRGRP, group_write |-> S_IWGRP, group_exec |-> S_IXGRP,
     others_read |-> S_IROTH, others_write |-> S_IWOTH, others_exec |-> S_IXOTH,
     set_uid |-> S_ISUID, set_gid |-> S_ISGID, sticky_bit |-> S_ISVTX]

\* C19: the permission mask status() and symlink_status() return holds a
\* perms flag exactly when the mode bit it stands for is set
C19_PermsFaithful ==
    (op \in {"status", "symlink_status"} /\ sb.ret = 0) =>
        \A fl \in DOMAIN PermBit :
            (fl \in file_status.perms) <=> (BitAnd(sb.st_mode, PermBit[fl]) # 0)

(***************************************************************************)
(* The drive of a UNC path.                                                *)
(***************************************************************************)
\* the 0-based index at which the host of \\host\share ends and the one at
\* which the share ends (the length of the string when nothing follows it)
HostEnd(s) == find(s, "\\", 2)
ShareEnd(s) == find(s, "\\", HostEnd(s) + 1)

\* s begins with \\host\share, host and share being names
IsUnc(s) ==
    /\ has_dslash(s)
    /\ 2 < HostEnd(s) /\ HostEnd(s) + 1 < ShareEnd(s)
    /\ \A i \in 3 .. ShareEnd(s) : s[i] # "/"

\* C20: the drive of a windows path that begins with \\host\share is
\* \\host\share, the host and the share
C20_UncDrive ==
    (op \in {"construct", "reconstruct"} /\ exc = "none" /\ is_win(p.fmt) /\ IsUnc(p.str)) =>
        (drive(p) = Slice(p.str, 0, ShareEnd(p.str)))

(***************************************************************************)
(* detail::path_range, the segment range iter() returns.                   *)
(***************************************************************************)
\* path_range(path const &p)
path_range(pp) ==
    LET s == pp.str
        dr == drive(pp)
        an == anchor(pp)
    IN  IF dr # <<>>
        THEN [p_current |-> an,
              p_rest |-> IF Len(an) = Len(dr) THEN Slice(s, Len(dr) - 1, Len(s))
                         ELSE Slice(s, Len(dr), Len(s))]
        ELSE IF root(pp) # <<>>
        THEN [p_current |-> root(pp), p_rest |-> s]
        ELSE LET sep == find(s, separator(pp.fmt), 0)
             IN  [p_current |-> Slice(s, 0, sep), p_rest |-> Slice(s, sep, Len(s))]

\* path_range::pop_front(); the format of the path is not looked at
range_pop_front(r, fmt) ==
    IF r.p_rest # <<>>
    THEN LET sep == IF Head(r.p_rest) # "/" THEN "\\" ELSE Head(r.p_rest)
             ncur == Tail(r.p_rest)
             nsep == find(ncur, sep, 0)
         IN  [p_current |-> Slice(ncur, 0, nsep), p_rest |-> Slice(ncur, nsep, Len(ncur))]
    ELSE [p_current |-> <<>>, p_rest |-> r.p_rest]

\* the segments seen at the front of the range so far
seen(r, sofar) == IF r.p_current = <<>> THEN sofar ELSE Append(sofar, r.p_current)

\* auto r = p.iter()
IterOpen ==
    /\ op = "construct"
    /\ range' = path_range(p)
    /\ taken' = seen(path_range(p), <<>>)
    /\ op' = "iter"
    /\ UNCHANGED <<p, q, exc, dirvars, globvars, statvars>>

\* r.pop_front(), the range not being empty
IterPopFront ==
    /\ op = "iter"
    /\ range.p_current # <<>>
    /\ range' = range_pop_front(range, p.fmt)
    /\ taken' = seen(range_pop_front(range, p.fmt), taken)
    /\ UNCHANGED <<pathvars, dirvars, globvars, statvars>>

NextIter ==
    \/ Construct
    \/ IterOpen
    \/ IterPopFront

SpecIter == NormInit /\ [][NextIter]_vars

\* the components of s between separators sep, the empty ones left out
RECURSIVE Components(_, _, _)
Components(s, sep, cur) ==
    IF s = <<>> THEN (IF cur = <<>> THEN <<>> ELSE <<cur>>)
    ELSE IF Head(s) = sep
         THEN (IF cur = <<>> THEN <<>> ELSE <<cur>>) \o Components(Tail(s), sep, <<>>)
         ELSE Components(Tail(s), sep, Append(cur, Head(s)))

\* the anchor of the path, when it has one, and the components after it
Segments(pp) ==
    (IF anchor(pp) = <<>> THEN <<>> ELSE <<anchor(pp)>>) \o
    Components(Slice(pp.str, Len(anchor(pp)), Len(pp.str)), separator(pp.fmt), <<>>)

\* C21: the segments taken from the range are the anchor and the components
\* of the path from left to right, none of them empty, and the range is
\* empty when all of them are taken and not before; a bare root or a bare
\* drive is one segment
C21_IterSegments ==
    (op = "iter") =>
        /\ Len(taken) <= Len(Segments(p))
        /\ taken = SubSeq(Segments(p), 1, Len(taken))
        /\ (range.p_current = <<>>) => (taken = Segments(p))
        /\ (q.str \in RootForms(q.fmt) \cup {<<"c", ":">>}) => (Len(Segments(p)) = 1)

\* the node the current entry names, and the directory it lies in
CurNode == OsResolve(fs, p_current.str).node
ParentNode(n) == SubSeq(n, 1, Len(n) - 1)

\* the current entry is a directory that holds nothing
AtEmptyDir ==
    /\ impl = "rdir_range_impl" /\ phase = "open" /\ status = "ok"
    /\ ~empty(p_current)
    /\ is_directory(fs, p_current.str)
    /\ CurNode # <<>>
    /\ Children(fs, CurNode) = {}

\* the directory read at the top of the stack has an entry left to return
SiblingLeft == p_handles # <<>> /\ tab[Top(p_handles)].left \ Sentinels # {}

\* C22: a read_next called at an empty directory that returns (the OS read
\* the directory and found nothing) has opened one stream on it and closed
\* it in the same call; when the directory being read has an entry left,
\* the stack and p_dir are as before and the current entry is another entry
\* of the same directory
C22_EmptyDirProbe ==
    [][(AtEmptyDir /\ tab' # tab /\ phase' = "open") =>
          /\ Len(tab') = Len(tab) + 1
          /\ tab'[Len(tab')].node = CurNode
          /\ ~tab'[Len(tab')].open /\ tab'[Len(tab')].closes = 1
          /\ SiblingLeft =>
                 /\ p_handles' = p_handles
                 /\ p_dir' = p_dir
                 /\ status' = "ok"
                 /\ OsResolve(fs, p_current'.str).ok
                 /\ OsResolve(fs, p_current'.str).node # CurNode
                 /\ ParentNode(OsResolve(fs, p_current'.str).node) = ParentNode(CurNode)]_vars

C22_Witness ==
    /\ impl = "rdir_range_impl" /\ phase = "open" /\ status = "ok"
    /\ ~empty(p_current) /\ OsResolve(fs, p_current.str).ok
    /\ \E d \in 1 .. Len(tab) :
           /\ ~tab[d].open /\ tab[d].closes = 1
           /\ tab[d].node # <<>> /\ IsDir(fs, tab[d].node) /\ Children(fs, tab[d].node) = {}
           /\ tab[d].node # CurNode
           /\ ParentNode(tab[d].node) = ParentNode(CurNode)
           /\ \A i \in 1 .. Len(p_handles) : p_handles[i] # d

\* C23: no pop of an exhausted directory fails, p_dir names the directory
\* whose stream is at the top of the stack, and the current entry is p_dir
\* joined with the name of an entry of that directory
C23_ContextRestored ==
    (impl = "rdir_range_impl" /\ phase = "open") =>
        /\ status \in {"ok", "abort"}
        /\ (status = "ok" /\ p_handles # <<>>) =>
               /\ OsResolve(fs, p_dir.str).ok
               /\ OsResolve(fs, p_dir.str).node = tab[Top(p_handles)].node
               /\ ~empty(p_current) =>
                      /\ OsResolve(fs, p_current.str).ok
                      /\ CurNode # <<>>
                      /\ ParentNode(CurNode) = tab[Top(p_handles)].node
                      /\ \E nm \in Names, j \in BOOLEAN :
                             p_current.str = append(p_dir, path_from_string(nm, "native"), j).str

\* s without its last character when that is sep
DropSep(s, sep) == IF s # <<>> /\ Back(s) = sep THEN Slice(s, 0, Len(s) - 1) ELSE s

\* p's string followed by q's normalized string, the separator at the seam
\* written once
Concatenated(pp, qq) ==
    LET sep == separator(pp.fmt)
        s == cleanup_str(qq.str, sep, FALSE)
    IN  IF pp.str = <<".">> THEN s
        ELSE IF pp.str # <<>> /\ Back(pp.str) = sep /\ s # <<>> /\ Head(s) = sep
             THEN Slice(pp.str, 0, Len(pp.str) - 1) \o s
             ELSE pp.str \o s

\* C24: concat never lets the operand replace the receiver: the result is
\* the receiver's string followed by the operand's normalized string, one
\* separator taken off at the seam when both have one there, and at most one
\* separator stripped from the end; from the receiver "." it is the operand's
\* normalized string
C24_ConcatNoOverride ==
    [][(op' = "concat") =>
          /\ exc' = "none"
          /\ p'.fmt = p.fmt
          /\ p'.str \in {Concatenated(p, q'), DropSep(Concatenated(p, q'), separator(p.fmt))}]_vars

\* the positions of the dots of s, and s from its last and from its first dot on
DotsAt(s) == {i \in 1 .. Len(s) : s[i] = "."}
FromLastDot(s) ==
    IF DotsAt(s) = {} THEN <<>>
    ELSE SubSeq(s, CHOOSE i \in DotsAt(s) : \A j \in DotsAt(s) : j <= i, Len(s))
FromFirstDot(s) ==
    IF DotsAt(s) = {} THEN <<>>
    ELSE SubSeq(s, CHOOSE i \in DotsAt(s) : \A j \in DotsAt(s) : i <= j, Len(s))

\* what is left of the path after its anchor
Remainder(pp) == relative_to_str(pp, anchor(pp))

\* C25: suffix() is the remainder of the path after its anchor, from the
\* last "." in it to the end of the path, and empty when the remainder has
\* no "."; suffixes() is the name from its first "." on
C25_SuffixOfRemainder ==
    (op \in {"construct", "reconstruct"}) =>
        /\ suffix(p) = FromLastDot(Remainder(p))
        /\ suffixes(p) = FromFirstDot(name(p))

C25_Witness ==
    /\ op = "construct"
    /\ p.str = <<"c", ".", "c", "/", "c">>
    /\ suffix(p) = <<".", "c", "/", "c">>
    /\ suffixes(p) = <<>>

\* the wildcard segments of a pattern, each of which chooses one candidate
RECURSIVE Wildcards(_)
Wildcards(pat) ==
    IF pat = <<>> THEN 0
    ELSE (IF is_recursive(Head(pat)) \/ is_wildcard(Head(pat)) THEN 1 ELSE 0)
         + Wildcards(Tail(pat))

\* the node spells the pattern out, every segment of the pattern used up:
\* ** standing for any run of names, another segment for one name
RECURSIVE Spells(_, _)
Spells(n, pat) ==
    IF pat = <<>> THEN n = <<>>
    ELSE IF is_recursive(Head(pat))
         THEN \E k \in 0 .. Len(n) : Spells(SubSeq(n, k + 1, Len(n)), Tail(pat))
    ELSE n # <<>> /\ matches(Head(n), Head(pat)) /\ Spells(Tail(n), Tail(pat))

\* C26: a path is in the sink once for each derivation that used up every
\* segment of the pattern and for no other reason; an empty pattern puts
\* the accumulated path into the sink once and nothing else
C26_EmitOncePerDerivation ==
    (op = "expanded") =>
        /\ \A e \in BagToSet(sink) :
               /\ CopiesIn(e, sink) = 1
               /\ Len(e.via) = Wildcards(pattern)
               /\ Len(e.path) >= Len(pattern)
               /\ Spells(e.path, pattern)
        /\ (pattern = <<>>) => (sink = SetToBag({[path |-> <<>>, via |-> <<>>]}))

C26_Witness ==
    /\ op = "expanded"
    /\ pattern = <<SegStarStar, SegStarStar>>
    /\ \E e1 \in BagToSet(sink), e2 \in BagToSet(sink) : e1.path = e2.path /\ e1.via # e2.via

\* the string begins with a separator or, in windows format, a drive letter
BeginsAnchored(s, fmt) ==
    \/ s # <<>> /\ is_sep(Head(s))
    \/ is_win(fmt) /\ has_letter(s)

\* C27: a path made from a string that begins with no separator and no
\* drive letter is not absolute and has no root
C27_RelativeStaysRelative ==
    (op = "construct" /\ ~BeginsAnchored(q.str, q.fmt)) =>
        /\ ~is_absolute(p)
        /\ ~has_root(p)

\* the path without its final component and the separator before it: the
\* anchor when the name is all that follows it, "." when there is no anchor
WithoutName(pp) ==
    LET nm == name(pp)
        an == anchor(pp)
    IN  IF Len(an) + Len(nm) = Len(pp.str)
        THEN (IF an = <<>> THEN <<".">> ELSE an)
        ELSE Slice(pp.str, 0, Len(pp.str) - Len(nm) - 1)

\* C28: remove_name() takes the final component and the separator before
\* it off a path that has a name, never erasing out of range and never
\* leaving the empty string: the anchor stays, a single relative component
\* leaves "."; a path without a name is left as it is
C28_RemoveNameKeepsAnchor ==
    [][(op' = "remove_name" /\ p.str # <<>>) =>
          /\ exc' = "none"
          /\ p'.str # <<>>
          /\ p'.str = IF has_name(p) THEN WithoutName(p) ELSE p.str]_vars

(***************************************************************************)
(* relative() and relative_to(): like parent(), they hand a range of       *)
(* p_path to path(R range, format fmt = format::native).                   *)
(***************************************************************************)
relative_to(pp, other) ==
    IF path_fmt(other.fmt) # path_fmt(pp.fmt)
    THEN path_from_string(relative_to_str(pp, path_convert(other, pp.fmt).str), "native")
    ELSE path_from_string(relative_to_str(pp, other.str), "native")

\* relative() is relative_to(anchor()): relative_to takes a path, so the
\* anchor range is first made a path by path(R range, format fmt = native)
relative(pp) == relative_to(pp, path_from_string(anchor(pp), "native"))

\* p = p.relative()
Relative ==
    /\ op = "construct"
    /\ p' = relative(p)
    /\ q' = p
    /\ op' = "relative"
    /\ UNCHANGED <<exc, dirvars, globvars, statvars, rangevars>>

\* p = p.relative_to(other)
RelativeTo ==
    \E other \in ArgCtor :
        /\ op = "construct"
        /\ p' = relative_to(p, other)
        /\ q' = p
        /\ op' = "relative_to"
        /\ UNCHANGED <<exc, dirvars, globvars, statvars, rangevars>>

\* p = p.parent(), of a path just made
ParentOf ==
    /\ op = "construct"
    /\ Parent

NextDerived ==
    \/ Construct
    \/ ParentOf
    \/ Relative
    \/ RelativeTo

SpecDerived == Init /\ [][NextDerived]_vars

\* C29: the path parent(), relative() and relative_to() return has the
\* format of the receiver, native taken as the format of the host, and no
\* separator of the other format
C29_FormatPreserved ==
    (op \in {"parent", "relative", "relative_to"}) =>
        /\ path_fmt(p.fmt) = path_fmt(q.fmt)
        /\ \A i \in 1 .. Len(p.str) : is_sep(p.str[i]) => p.str[i] = separator(q.fmt)

(***************************************************************************)
(* The characters cleanup_str inspects.  Every read goes through p, which  *)
(* points at s[start], so p[k] is the byte at index start + k; the byte at *)
(* index s.size() is the terminating NUL and the last one the string owns. *)
(* scan_read follows the inner loop of cleanup_str and gives the highest   *)
(* index it inspects; the scan is followed until it first looks past the   *)
(* NUL.                                                                    *)
(***************************************************************************)
RECURSIVE scan_read(_, _, _)
scan_read(s, start, cnt) ==
    LET i == start + cnt + 1
    IN  IF i > Len(s) THEN i
        ELSE IF is_sep(At(s, i)) THEN scan_read(s, start, cnt + 1)
        ELSE IF At(s, i) = "."
             THEN IF is_sep(At(s, i + 1)) \/ At(s, i + 1) = NUL
                  THEN scan_read(s, start, cnt + 2)
                  ELSE i + 1
        ELSE i

\* whether some pass of the outer loop inspects an index above the size the
\* string has during that pass
RECURSIVE loop_reads_past(_, _, _)
loop_reads_past(s, start, sep) ==
    IF start >= Len(s) THEN FALSE
    ELSE IF is_sep(At(s, start))
         THEN \/ scan_read(s, start, 0) > Len(s)
              \/ loop_reads_past(replace1(s, start, scan_cnt(s, start, 0) + 1, sep), start + 1, sep)
         ELSE loop_reads_past(s, start + 1, sep)

\* the reads before the loop: p[0] and, when it is a separator, p[1]; then *p
\* and, when it is a dot, p[1] again from the new start
cleanup_reads_past(s, sep, allow_twoslash) ==
    LET two == allow_twoslash /\ is_sep(At(s, 0))
        start == IF two /\ is_sep(At(s, 1)) THEN 1 ELSE 0
        dot == At(s, start) = "."
        erased == IF dot /\ (is_sep(At(s, start + 1)) \/ At(s, start + 1) = NUL)
                  THEN LET n == IF At(s, start + 1) = NUL THEN 1 ELSE 2
                       IN  Slice(s, 0, start) \o Slice(s, start + n, Len(s))
                  ELSE s
    IN  \/ two /\ 1 > Len(s)
        \/ start > Len(s)
        \/ dot /\ start + 1 > Len(s)
        \/ loop_reads_past(erased, start, sep)

\* C30: constructing a path from a string never makes cleanup_str inspect an
\* index above the size of the string it is scanning
C30_NoReadPastNul ==
    (op = "construct") => ~cleanup_reads_past(q.str, separator(q.fmt), is_win(q.fmt))

====
